---- MODULE Spec2Model ----
(***************************************************************************)
(* The change-extraction engine of tfsec (src/src/tfsec/parse.py):         *)
(* extract_changes and create_resource_changes_dict, applied to bounded    *)
(* sets of resource-change records and plan documents; and the plan        *)
(* acquisition, run_terraform_plan, as called by the main of               *)
(* src/src/tfsec/analyze.py, step by step.                                 *)
(*                                                                         *)
(* Python values are represented as follows.                               *)
(*   - a dict is a function whose DOMAIN is its key set; a key that is     *)
(*     missing from the dict is missing from the DOMAIN;                   *)
(*   - a list is a sequence;                                               *)
(*   - an attribute value (a JSON value: null, string, list, nested dict)  *)
(*     is a record [kind, seq, map], so that values of different JSON      *)
(*     types are comparable and compare unequal;                           *)
(*   - a Python value that is either None or a dict (change.before,        *)
(*     change.after, the value returned by extract_changes) is a record    *)
(*     [none, dict].                                                       *)
(***************************************************************************)
EXTENDS Naturals, Sequences, FiniteSets, TLC

VARIABLES
    op,               \* the function under call; "main" is the main of analyze.py
    pc,               \* "call" before the call, "returned" after it
    resource_change,  \* argument of extract_changes
    json_plan,        \* argument of create_resource_changes_dict
    delta,            \* value returned by extract_changes
    outcome,          \* how create_resource_changes_dict ended: [raised, value]
    state_file,       \* the state_file argument of run_terraform_plan
    output_file,      \* the output_file argument of run_terraform_plan
    is_dir,           \* the directory argument is a directory
    directory,        \* the files of the target directory: [tfstate, tfplan]
    before_call,      \* directory, as it was when run_terraform_plan was called
    copied_state,     \* the local copied_state is not None
    rpc,              \* where run_terraform_plan is
    invoked,          \* the terraform commands run so far, in order
    returncode,       \* the exit code of each command that exited
    show_stdout,      \* the output of terraform show
    result,           \* what run_terraform_plan returns or raises
    main_pc,          \* where the main of analyze.py or of parse.py is
    main_changes,     \* the local changes of main
    llm_calls,        \* the arguments of the calls of analyze_changes
    exit_code         \* the exit status main ended with

core_vars == <<op, pc, resource_change, json_plan, delta, outcome>>

plan_vars == <<state_file, output_file, is_dir, directory, before_call,
               copied_state, rpc, invoked, returncode, show_stdout, result>>

main_vars == <<main_pc, main_changes, llm_calls, exit_code>>

vars == <<core_vars, plan_vars, main_vars>>

-----------------------------------------------------------------------------
(* Python values *)

EmptyDict == <<>>
EmptyList == <<>>

\* JSON attribute values
Null == [kind |-> "null", seq |-> <<>>, map |-> <<>>]
Str(s) == [kind |-> "str", seq |-> <<s>>, map |-> <<>>]
List(q) == [kind |-> "list", seq |-> q, map |-> <<>>]
Map(f) == [kind |-> "map", seq |-> <<>>, map |-> f]

\* None, or a dict
PyNone == [none |-> TRUE, dict |-> EmptyDict]
Dict(d) == [none |-> FALSE, dict |-> d]

\* truth value of a None-or-dict: None and {} are false
Truthy(x) == ~x.none /\ DOMAIN x.dict # {}

\* d.get(k, default)
Get(d, k, default) == IF k \in DOMAIN d THEN d[k] ELSE default

\* d[k] = v
Put(d, k, v) == [x \in DOMAIN d \cup {k} |-> IF x = k THEN v ELSE d[x]]

\* x in list
InList(x, list) == \E i \in DOMAIN list : list[i] = x

-----------------------------------------------------------------------------
(* extract_changes *)

\* A comparison that keeps every key of the union, equal values or not.
compare_keep_all(before, after) ==
    IF ~before.none /\ ~after.none
    THEN LET all_keys == DOMAIN before.dict \cup DOMAIN after.dict
         IN [key \in all_keys |->
                [before |-> Get(before.dict, key, Null),
                 after |-> Get(after.dict, key, Null)]]
    ELSE EmptyDict

\* A comparison that walks the keys of before only.
compare_before_keys(before, after) ==
    IF ~before.none /\ ~after.none
    THEN LET all_keys == DOMAIN before.dict
             changed == {key \in all_keys :
                            Get(before.dict, key, Null) # Get(after.dict, key, Null)}
         IN [key \in changed |->
                [before |-> Get(before.dict, key, Null),
                 after |-> Get(after.dict, key, Null)]]
    ELSE EmptyDict

\* Equality that takes a list for the set of its elements.
same_unordered(v, w) ==
    IF v.kind = "list" /\ w.kind = "list"
    THEN /\ Len(v.seq) = Len(w.seq)
         /\ {v.seq[i] : i \in DOMAIN v.seq} = {w.seq[i] : i \in DOMAIN w.seq}
    ELSE v = w

\* A comparison that ignores the order of the elements of a list.
compare_unordered(before, after) ==
    IF ~before.none /\ ~after.none
    THEN LET all_keys == DOMAIN before.dict \cup DOMAIN after.dict
             changed == {key \in all_keys :
                            ~same_unordered(Get(before.dict, key, Null),
                                            Get(after.dict, key, Null))}
         IN [key \in changed |->
                [before |-> Get(before.dict, key, Null),
                 after |-> Get(after.dict, key, Null)]]
    ELSE EmptyDict

\* parse.py 203-213: the comparison of before and after. changed is the set
\* of keys for which line 209 holds; the dict built has an item for each.
compare(before, after) ==
    IF ~before.none /\ ~after.none
    THEN LET all_keys == DOMAIN before.dict \cup DOMAIN after.dict
             changed == {key \in all_keys :
                            Get(before.dict, key, Null) # Get(after.dict, key, Null)}
         IN [key \in changed |->
                [before |-> Get(before.dict, key, Null),
                 after |-> Get(after.dict, key, Null)]]
    ELSE EmptyDict

\* extract_changes without the test of line 199.
extract_changes_without_no_op(change) ==
    IF DOMAIN change = {}
    THEN PyNone
    ELSE LET before == Get(change, "before", Dict(EmptyDict))
             after == Get(change, "after", Dict(EmptyDict))
             changes == compare(before, after)
         IN IF DOMAIN changes # {} THEN Dict(changes) ELSE PyNone

\* parse.py 189-215. The argument is a dict (an empty one is false at line
\* 191); the value returned is None or a non-empty dict.
extract_changes(change) ==
    IF DOMAIN change = {}
    THEN PyNone
    ELSE LET before == Get(change, "before", Dict(EmptyDict))
             after == Get(change, "after", Dict(EmptyDict))
             actions == Get(change, "actions", EmptyList)
         IN IF InList("no-op", actions)
            THEN PyNone
            ELSE LET changes == compare(before, after)
                 IN IF DOMAIN changes # {} THEN Dict(changes) ELSE PyNone

-----------------------------------------------------------------------------
(* create_resource_changes_dict *)

\* How a call ended: it returned value, or it raised.
Returned(value) == [raised |-> "", value |-> value]
Raised(exception) == [raised |-> exception, value |-> EmptyDict]

\* A record whose action is read from the entry, not from its change.
normalized_entry_actions(resource, resource_changes) ==
    [type |-> Get(resource, "type", ""),
     name |-> Get(resource, "name", ""),
     action |-> Get(resource, "actions", EmptyList),
     changes |-> resource_changes.dict]

\* parse.py 231-236: the record stored under the address. It is built only
\* when the delta is non-empty, hence when resource has a change.
normalized(resource, resource_changes) ==
    [type |-> Get(resource, "type", ""),
     name |-> Get(resource, "name", ""),
     action |-> Get(resource["change"], "actions", EmptyList),
     changes |-> resource_changes.dict]

\* An iteration that stores a record for every entry, empty delta or not.
loop_body_keep_empty(acc, resource) ==
    IF acc.raised # ""
    THEN acc
    ELSE LET resource_changes == extract_changes(Get(resource, "change", EmptyDict))
         IN IF "address" \in DOMAIN resource
            THEN Returned(Put(acc.value, resource["address"],
                              [type |-> Get(resource, "type", ""),
                               name |-> Get(resource, "name", ""),
                               action |-> Get(Get(resource, "change", EmptyDict),
                                              "actions", EmptyList),
                               changes |-> resource_changes.dict]))
            ELSE Raised("KeyError")

\* An iteration that keeps the record an address already has.
loop_body_first_wins(acc, resource) ==
    IF acc.raised # ""
    THEN acc
    ELSE LET resource_changes == extract_changes(Get(resource, "change", EmptyDict))
         IN IF Truthy(resource_changes)
            THEN IF "address" \in DOMAIN resource
                 THEN IF resource["address"] \in DOMAIN acc.value
                      THEN acc
                      ELSE Returned(Put(acc.value, resource["address"],
                                        normalized(resource, resource_changes)))
                 ELSE Raised("KeyError")
            ELSE acc

\* parse.py 229-236: one iteration of the loop over the entries; acc is how
\* the iterations so far ended. resource["address"] raises KeyError when
\* the entry has no address.
loop_body(acc, resource) ==
    IF acc.raised # ""
    THEN acc
    ELSE LET resource_changes == extract_changes(Get(resource, "change", EmptyDict))
         IN IF Truthy(resource_changes)
            THEN IF "address" \in DOMAIN resource
                 THEN Returned(Put(acc.value, resource["address"],
                                   normalized(resource, resource_changes)))
                 ELSE Raised("KeyError")
            ELSE acc

\* parse.py 228: the loop over the entries, from entry i on
RECURSIVE loop(_, _, _)
loop(acc, resources, i) ==
    IF i > Len(resources)
    THEN acc
    ELSE loop(loop_body(acc, resources[i]), resources, i + 1)

\* A function that subscripts the document instead of calling get.
create_resource_changes_dict_subscript(plan) ==
    IF "resource_changes" \in DOMAIN plan
    THEN loop(Returned(EmptyDict), plan["resource_changes"], 1)
    ELSE Raised("KeyError")

\* parse.py 217-237
create_resource_changes_dict(plan) ==
    loop(Returned(EmptyDict), Get(plan, "resource_changes", EmptyList), 1)

-----------------------------------------------------------------------------
(* The inputs *)

\* the longest resource_changes sequence with more than one entry
MaxEntries == 2

Restrict(f, keys) == [k \in keys |-> f[k]]

AttrKeys == {"name", "source_ranges"}

Values ==
    {Null, Str("a"), Str("b"),
     List(<<"10.0.0.0/8", "0.0.0.0/0">>), List(<<"0.0.0.0/0", "10.0.0.0/8">>),
     Map([env |-> "prod"]), Map([env |-> "prod", team |-> "net"])}

\* attribute records: every dict from some of AttrKeys to Values
AttrDicts == UNION {[keys -> Values] : keys \in SUBSET AttrKeys}

\* change.before / change.after when present: null, or an attribute record
Sides == {PyNone} \cup {Dict(d) : d \in AttrDicts}

ActionLists ==
    {<<>>, <<"update">>, <<"no-op">>, <<"create", "delete">>, <<"delete", "create">>}

ChangeKeys == {"before", "after", "actions"}

\* the change records: each of before, after and actions present or missing
\* the change record with the given fields, of which only those of keys are
\* present
Change(keys, b, a, acts) ==
    Restrict([before |-> b, after |-> a, actions |-> acts], keys)

\* the change records whose before and after are drawn from sides: each of
\* before, after and actions present or missing
IsChange(change, sides) ==
    \E keys \in SUBSET ChangeKeys :
        \E b \in IF "before" \in keys THEN sides ELSE {PyNone},
           a \in IF "after" \in keys THEN sides ELSE {PyNone},
           acts \in IF "actions" \in keys THEN ActionLists ELSE {EmptyList} :
            change = Change(keys, b, a, acts)

ChangesOf(sides) ==
    UNION {{Change(keys, b, a, acts) :
                b \in IF "before" \in keys THEN sides ELSE {PyNone},
                a \in IF "after" \in keys THEN sides ELSE {PyNone},
                acts \in IF "actions" \in keys THEN ActionLists ELSE {EmptyList}} :
           keys \in SUBSET ChangeKeys}

\* attribute records and change records of the entries of plan documents
PlanDicts ==
    {EmptyDict,
     [name |-> Str("a")],
     [name |-> Str("b")],
     [name |-> Null],
     [name |-> Str("a"), source_ranges |-> List(<<"10.0.0.0/8", "0.0.0.0/0">>)],
     [name |-> Str("a"), source_ranges |-> List(<<"0.0.0.0/0", "10.0.0.0/8">>)]}

PlanSides == {PyNone} \cup {Dict(d) : d \in PlanDicts}

PlanChanges == ChangesOf(PlanSides)

ResourceKeys == {"address", "type", "name", "change"}

\* the entries of resource_changes: each of address, type, name and change
\* present or missing
Resources ==
    UNION {{Restrict([address |-> ad, type |-> "google_compute_firewall",
                      name |-> "allow-http-https", change |-> c], keys) :
                ad \in IF "address" \in keys THEN {"fw.a", "fw.b"} ELSE {""},
                c \in IF "change" \in keys THEN PlanChanges ELSE {EmptyDict}} :
           keys \in SUBSET ResourceKeys}

\* the entries of the documents with several entries
SeveralChanges ==
    {[before |-> Dict([name |-> Str("a")]), after |-> Dict([name |-> Str("b")]),
      actions |-> <<"update">>],
     [before |-> Dict([name |-> Str("a")]), after |-> Dict([name |-> Null]),
      actions |-> <<"delete", "create">>],
     [before |-> Dict([name |-> Str("a")]), after |-> Dict([name |-> Str("b")]),
      actions |-> <<"no-op">>],
     [before |-> Dict([name |-> Str("a")]), after |-> Dict([name |-> Str("a")]),
      actions |-> <<"update">>]}

SeveralResources ==
    UNION {{Restrict([address |-> ad, type |-> "google_compute_firewall",
                      name |-> "allow-http-https", change |-> c], keys) :
                ad \in {"fw.a", "fw.b"}, c \in SeveralChanges} :
           keys \in {ResourceKeys, ResourceKeys \ {"address"}}}

ResourceLists ==
    {<<>>} \cup {<<r>> : r \in Resources}
    \cup UNION {[1..n -> SeveralResources] : n \in 2..MaxEntries}

\* the plan documents: resource_changes present or missing
Plans ==
    {EmptyDict, [format_version |-> "1.0"]}
    \cup {[format_version |-> "1.0", resource_changes |-> rs] : rs \in ResourceLists}

-----------------------------------------------------------------------------
(* run_terraform_plan: values *)

\* state_file: None; a path at which there is no file; a file outside the
\* directory; the directory's own terraform.tfstate
StateFiles == {"none", "missing", "elsewhere", "in_directory"}

\* state_file and state_file.exists()
state_file_exists(path) == path \in {"elsewhere", "in_directory"}

\* output_file: None; a path outside the directory or of another file in
\* it; directory/terraform.tfstate; directory/tfplan
OutputFiles == {"none", "elsewhere", "tfstate", "tfplan"}

\* exit codes of terraform init, of terraform plan -detailed-exitcode and
\* of terraform show
InitCodes == {0, 1}
PlanCodes == {0, 1, 2}
ShowCodes == {0, 1}

\* the output of terraform show: text json.loads rejects, or the text of a
\* document
InvalidJson == [valid |-> FALSE, doc |-> EmptyDict]
JsonOf(doc) == [valid |-> TRUE, doc |-> doc]

ShowDocs ==
    {EmptyDict}
    \cup {[format_version |-> "1.0", resource_changes |-> rs] :
             rs \in {<<>>} \cup {<<r>> : r \in SeveralResources}}

ShowOutputs == {InvalidJson} \cup {JsonOf(doc) : doc \in ShowDocs}

\* error of a TerraformPlanResult: None, or a text given by its parts
NoError == <<>>

\* a TerraformPlanResult returned; stdout names the process whose output it
\* holds
PlanResult(stdout, plan, return_code, error) ==
    [raised |-> "", stdout |-> stdout, json_plan |-> plan,
     return_code |-> return_code, error |-> error]

\* an exception that leaves _run_terraform_plan
PlanRaised(exception) ==
    [raised |-> exception, stdout |-> "", json_plan |-> PyNone,
     return_code |-> 0, error |-> NoError]

NoResult == PlanRaised("")

-----------------------------------------------------------------------------
(* _run_terraform_plan *)

\* what no step of run_terraform_plan changes
PlanFrame ==
    UNCHANGED <<state_file, output_file, is_dir, before_call, core_vars, main_vars>>

\* parse.py 126-128, state_file None or not there: nothing is copied
SkipCopy ==
    /\ rpc = "copy"
    /\ ~state_file_exists(state_file)
    /\ copied_state' = FALSE
    /\ rpc' = "init"
    /\ UNCHANGED <<directory, result, invoked, returncode, show_stdout>>
    /\ PlanFrame

\* parse.py 126: state_file.exists() raises OSError (the path cannot be
\* examined); copied_state is still None
ExistsFails ==
    /\ rpc = "copy"
    /\ state_file # "none"
    /\ copied_state' = FALSE
    /\ result' = PlanRaised("OSError")
    /\ rpc' = "finally"
    /\ UNCHANGED <<directory, invoked, returncode, show_stdout>>
    /\ PlanFrame

\* parse.py 126-128: the file is copied to directory/terraform.tfstate,
\* over the file that may be there
CopyState ==
    /\ rpc = "copy"
    /\ state_file = "elsewhere"
    /\ is_dir
    /\ copied_state' = TRUE
    /\ directory' = [directory EXCEPT !.tfstate = "copy"]
    /\ rpc' = "init"
    /\ UNCHANGED <<result, invoked, returncode, show_stdout>>
    /\ PlanFrame

\* parse.py 126-128: shutil.copy2 raises SameFileError when state_file is
\* directory/terraform.tfstate itself; copied_state is assigned before
\* (line 127)
CopySameFile ==
    /\ rpc = "copy"
    /\ state_file = "in_directory"
    /\ copied_state' = TRUE
    /\ result' = PlanRaised("SameFileError")
    /\ rpc' = "finally"
    /\ UNCHANGED <<directory, invoked, returncode, show_stdout>>
    /\ PlanFrame

\* parse.py 128: directory/terraform.tfstate when shutil.copy2 raises
\* OSError: as it was when the copy fails before the target is opened (the
\* source is a directory, the target cannot be created); created or
\* truncated and partly written when a read or a write fails; the whole
\* copy when the data was copied and copying the metadata (copystat) fails
failed_copy(dir, dir_ok) ==
    IF dir_ok
    THEN {dir, [dir EXCEPT !.tfstate = "partial"], [dir EXCEPT !.tfstate = "copy"]}
    ELSE {dir}

\* parse.py 126-128: shutil.copy2 raises OSError
CopyFails ==
    /\ rpc = "copy"
    /\ state_file = "elsewhere"
    /\ copied_state' = TRUE
    /\ directory' \in failed_copy(directory, is_dir)
    /\ result' = PlanRaised("OSError")
    /\ rpc' = "finally"
    /\ UNCHANGED <<invoked, returncode, show_stdout>>
    /\ PlanFrame

\* parse.py 175-182: the result for a CalledProcessError of terraform init
called_process_error(rc) ==
    PlanResult("init", PyNone, rc,
               <<"Command '['terraform', 'init']' returned non-zero exit status ",
                 ToString(rc)>>)

\* parse.py 131-137 and 175-182: terraform init, with check=True
TerraformInit ==
    /\ rpc = "init"
    /\ is_dir
    /\ invoked' = Append(invoked, "init")
    /\ \E rc \in InitCodes :
          /\ returncode' = Put(returncode, "init", rc)
          /\ IF rc = 0
             THEN rpc' = "plan" /\ UNCHANGED result
             ELSE rpc' = "finally" /\ result' = called_process_error(rc)
    /\ UNCHANGED <<directory, copied_state, show_stdout>>
    /\ PlanFrame

\* parse.py 131-153: subprocess.run raises OSError (there is no terraform
\* executable, or directory is not a directory) instead of running the
\* command
TerraformNotFound ==
    /\ rpc \in {"init", "plan", "show"}
    /\ invoked' = Append(invoked, rpc)
    /\ result' = PlanRaised("OSError")
    /\ rpc' = "finally"
    /\ UNCHANGED <<directory, copied_state, returncode, show_stdout>>
    /\ PlanFrame

\* terraform plan run with check=True: a failure skips terraform show.
after_plan_checked(rc) == IF rc = 1 THEN "finally" ELSE "show"

\* parse.py 140-145: the step after terraform plan exited with rc; there is
\* no check=True, and the exit code is not looked at before line 172
after_plan(rc) == "show"

\* parse.py 140-145: terraform plan -out=tfplan -detailed-exitcode writes
\* the file tfplan unless it fails (exit code 1)
TerraformPlan ==
    /\ rpc = "plan"
    /\ invoked' = Append(invoked, "plan")
    /\ \E rc \in PlanCodes :
          /\ returncode' = Put(returncode, "plan", rc)
          /\ directory' = IF rc # 1
                          THEN [directory EXCEPT !.tfplan = "written"]
                          ELSE directory
          /\ rpc' = after_plan(rc)
    /\ UNCHANGED <<copied_state, show_stdout, result>>
    /\ PlanFrame

\* parse.py 148-153: terraform show -json tfplan fails when there is no
\* file tfplan
TerraformShow ==
    /\ rpc = "show"
    /\ invoked' = Append(invoked, "show")
    /\ \E rc \in ShowCodes, out \in ShowOutputs :
          /\ directory.tfplan = "absent" => rc # 0
          /\ rc # 0 => out = InvalidJson
          /\ returncode' = Put(returncode, "show", rc)
          /\ show_stdout' = out
    /\ rpc' = "loads"
    /\ UNCHANGED <<directory, copied_state, result>>
    /\ PlanFrame

\* A result whose return_code is the exit code of terraform show.
plan_result_show_code(plan_rc, show_rc, out) ==
    IF show_rc = 0
    THEN IF out.valid
         THEN PlanResult("plan", Dict(out.doc), show_rc, NoError)
         ELSE PlanResult("plan", PyNone, 1,
                         <<"Failed to parse JSON: ", "Expecting value">>)
    ELSE PlanResult("plan", PyNone, plan_rc, NoError)

\* parse.py 155-173: the result, from the exit codes of plan and show and
\* the output of show
plan_result(plan_rc, show_rc, out) ==
    IF show_rc = 0
    THEN IF out.valid
         THEN PlanResult("plan", Dict(out.doc), plan_rc, NoError)
         ELSE PlanResult("plan", PyNone, 1,
                         <<"Failed to parse JSON: ", "Expecting value">>)
    ELSE PlanResult("plan", PyNone, plan_rc, NoError)

\* parse.py 155-173
Loads ==
    /\ rpc = "loads"
    /\ result' = plan_result(returncode["plan"], returncode["show"], show_stdout)
    /\ rpc' = "finally"
    /\ UNCHANGED <<directory, copied_state, invoked, returncode, show_stdout>>
    /\ PlanFrame

\* parse.py 185-186: the directory after the finally block, and the
\* exception that left it: with copied_state set, terraform.tfstate is
\* removed when it is there, or copied_state.exists() or
\* copied_state.unlink() raises OSError and nothing is removed
cleanup(copied, dir) ==
    IF copied
    THEN {[directory |-> [dir EXCEPT !.tfstate = "absent"], raised |-> ""],
          [directory |-> dir, raised |-> "OSError"]}
    ELSE {[directory |-> dir, raised |-> ""]}

\* parse.py 183-186, and the return or the raise that follows; an exception
\* of the finally block replaces the pending result; a path under what is
\* not a directory does not exist, without error
Finally ==
    /\ rpc = "finally"
    /\ \E c \in cleanup(copied_state, directory) :
          /\ c.raised # "" => is_dir
          /\ directory' = c.directory
          /\ result' = IF c.raised # "" THEN PlanRaised(c.raised) ELSE result
          /\ rpc' = IF c.raised = "" /\ result.raised = "" THEN "save" ELSE "raised"
    /\ UNCHANGED <<copied_state, invoked, returncode, show_stdout>>
    /\ PlanFrame

\* the directory after content was written to the file out
written(out, dir, content) ==
    IF out = "tfstate" THEN [dir EXCEPT !.tfstate = content]
    ELSE IF out = "tfplan" THEN [dir EXCEPT !.tfplan = content]
    ELSE dir

\* parse.py 103-106, called at 118-119: the directory after
\* save_plan_result, and the exception that left it: the result is written
\* to output_file, or open raises OSError, or a write does and leaves the
\* file partly written
save_plan_result(out, dir) ==
    IF out = "none"
    THEN {[directory |-> dir, raised |-> ""]}
    ELSE {[directory |-> written(out, dir, "saved"), raised |-> ""],
          [directory |-> dir, raised |-> "OSError"],
          [directory |-> written(out, dir, "saved_partial"), raised |-> "OSError"]}

\* parse.py 115-120: run_terraform_plan after _run_terraform_plan returned
SavePlanResult ==
    /\ rpc = "save"
    /\ \E saved \in save_plan_result(output_file, directory) :
          /\ directory' = saved.directory
          /\ result' = IF saved.raised # "" THEN PlanRaised(saved.raised) ELSE result
          /\ rpc' = IF saved.raised = "" THEN "returned" ELSE "raised"
    /\ UNCHANGED <<copied_state, invoked, returncode, show_stdout>>
    /\ PlanFrame

-----------------------------------------------------------------------------
(* analyze.py: main *)

\* A main without the test of line 142.
after_plan_result_unchecked(res) ==
    IF Len(res.error) > 0
    THEN [pc |-> "exited", exit_code |-> 1, changes |-> EmptyDict]
    ELSE IF ~Truthy(res.json_plan)
    THEN [pc |-> "exited", exit_code |-> 0, changes |-> EmptyDict]
    ELSE LET created == create_resource_changes_dict(res.json_plan.dict)
         IN IF created.raised # ""
            THEN [pc |-> "raised", exit_code |-> 0, changes |-> EmptyDict]
            ELSE [pc |-> "analyze_changes", exit_code |-> 0, changes |-> created.value]

\* analyze.py 132-144: what main does with the result of
\* run_terraform_plan: it returns a code, raises, or goes on to
\* analyze_changes with the ChangeSet
after_plan_result(res) ==
    IF Len(res.error) > 0
    THEN [pc |-> "exited", exit_code |-> 1, changes |-> EmptyDict]
    ELSE IF ~Truthy(res.json_plan)
    THEN [pc |-> "exited", exit_code |-> 0, changes |-> EmptyDict]
    ELSE LET created == create_resource_changes_dict(res.json_plan.dict)
         IN IF created.raised # ""
            THEN [pc |-> "raised", exit_code |-> 0, changes |-> EmptyDict]
            ELSE IF DOMAIN created.value = {}
            THEN [pc |-> "exited", exit_code |-> 0, changes |-> EmptyDict]
            ELSE [pc |-> "analyze_changes", exit_code |-> 0, changes |-> created.value]

\* what no step of main changes
MainFrame == UNCHANGED <<core_vars, plan_vars>>

\* analyze.py 131, parse.py 261: an exception of run_terraform_plan leaves
\* main
MainRaises ==
    /\ main_pc = "run_terraform_plan"
    /\ rpc = "raised"
    /\ main_pc' = "raised"
    /\ UNCHANGED <<main_changes, llm_calls, exit_code>>
    /\ MainFrame

\* analyze.py 131-144
MainAfterPlan ==
    /\ op = "main"
    /\ main_pc = "run_terraform_plan"
    /\ rpc = "returned"
    /\ main_pc' = after_plan_result(result).pc
    /\ exit_code' = after_plan_result(result).exit_code
    /\ main_changes' = after_plan_result(result).changes
    /\ UNCHANGED llm_calls
    /\ MainFrame

\* analyze.py 147-170 and 100-110: the call of analyze_changes, whose
\* answer is an analysis or None
AnalyzeChanges ==
    /\ main_pc = "analyze_changes"
    /\ llm_calls' = Append(llm_calls, [changes |-> main_changes])
    /\ \E analysis \in {"None", "SecurityAnalysis"} :
          exit_code' = IF analysis = "None" THEN 1 ELSE 0
    /\ main_pc' = "exited"
    /\ UNCHANGED main_changes
    /\ MainFrame

-----------------------------------------------------------------------------
(* parse.py: main *)

\* parse.py 251-259: what main does with its arguments: it exits with
\* status 1, or calls run_terraform_plan
check_args(dir_ok, path) ==
    IF ~dir_ok
    THEN [pc |-> "exited", exit_code |-> 1]
    ELSE IF path # "none" /\ ~state_file_exists(path)
    THEN [pc |-> "exited", exit_code |-> 1]
    ELSE [pc |-> "run_terraform_plan", exit_code |-> 0]

\* parse.py 251-261
ParseArgs ==
    /\ op = "parse.main"
    /\ main_pc = "args"
    /\ main_pc' = check_args(is_dir, state_file).pc
    /\ exit_code' = check_args(is_dir, state_file).exit_code
    /\ rpc' = IF main_pc' = "run_terraform_plan" THEN "copy" ELSE rpc
    /\ UNCHANGED <<main_changes, llm_calls>>
    /\ UNCHANGED <<state_file, output_file, is_dir, directory, before_call,
                   copied_state, invoked, returncode, show_stdout, result>>
    /\ UNCHANGED core_vars

\* parse.py 251, 255: args.directory.is_dir() or args.state.exists() raises
\* OSError (the path cannot be examined)
ParseArgsRaises ==
    /\ op = "parse.main"
    /\ main_pc = "args"
    /\ main_pc' = "raised"
    /\ UNCHANGED <<main_changes, llm_calls, exit_code>>
    /\ MainFrame

\* parse.py 263-279: what main does with the result of run_terraform_plan:
\* sys.exit(1) on an error or without a plan, the end of main (status 0)
\* with a plan, or the KeyError of create_resource_changes_dict
parse_after_plan_result(res) ==
    IF Len(res.error) > 0
    THEN [pc |-> "exited", exit_code |-> 1]
    ELSE IF Truthy(res.json_plan)
    THEN IF create_resource_changes_dict(res.json_plan.dict).raised # ""
         THEN [pc |-> "raised", exit_code |-> 0]
         ELSE [pc |-> "exited", exit_code |-> 0]
    ELSE [pc |-> "exited", exit_code |-> 1]

\* parse.py 261-279
ParseAfterPlan ==
    /\ op = "parse.main"
    /\ main_pc = "run_terraform_plan"
    /\ rpc = "returned"
    /\ main_pc' = parse_after_plan_result(result).pc
    /\ exit_code' = parse_after_plan_result(result).exit_code
    /\ UNCHANGED <<main_changes, llm_calls>>
    /\ MainFrame

-----------------------------------------------------------------------------
(* The calls of run_terraform_plan and of the two main *)

\* no call of run_terraform_plan or of main is under way
PlanIdle ==
    /\ state_file = "none"
    /\ output_file = "none"
    /\ is_dir = TRUE
    /\ directory = [tfstate |-> "absent", tfplan |-> "absent"]
    /\ before_call = directory
    /\ copied_state = FALSE
    /\ rpc = "idle"
    /\ invoked = <<>>
    /\ returncode = EmptyDict
    /\ show_stdout = InvalidJson
    /\ result = NoResult
    /\ main_pc = "idle"
    /\ main_changes = EmptyDict
    /\ llm_calls = <<>>
    /\ exit_code = 0

\* the main of analyze.py has called run_terraform_plan(args.directory,
\* args.state) (analyze.py 131), or run_terraform_plan(directory,
\* state_file, output_file) is called, or the main of parse.py has parsed
\* its arguments (parse.py 249); what is not a directory holds no file
InitPlan ==
    /\ pc = "call"
    /\ resource_change = EmptyDict
    /\ json_plan = EmptyDict
    /\ delta = PyNone
    /\ outcome = Returned(EmptyDict)
    /\ state_file \in StateFiles
    /\ output_file \in OutputFiles
    /\ is_dir \in BOOLEAN
    /\ directory \in [tfstate : {"absent", "original"}, tfplan : {"absent", "stale"}]
    /\ state_file = "in_directory" => directory.tfstate = "original"
    /\ ~is_dir => /\ directory = [tfstate |-> "absent", tfplan |-> "absent"]
                  /\ output_file \notin {"tfstate", "tfplan"}
    /\ before_call = directory
    /\ copied_state = FALSE
    /\ invoked = <<>>
    /\ returncode = EmptyDict
    /\ show_stdout = InvalidJson
    /\ result = NoResult
    /\ main_changes = EmptyDict
    /\ llm_calls = <<>>
    /\ exit_code = 0
    /\ \/ /\ op = "main"
          /\ output_file = "none"
          /\ main_pc = "run_terraform_plan"
          /\ rpc = "copy"
       \/ /\ op = "run_terraform_plan"
          /\ main_pc = "idle"
          /\ rpc = "copy"
       \/ /\ op = "parse.main"
          /\ main_pc = "args"
          /\ rpc = "idle"

NextPlan ==
    \/ SkipCopy
    \/ ExistsFails
    \/ CopyState
    \/ CopySameFile
    \/ CopyFails
    \/ TerraformInit
    \/ TerraformNotFound
    \/ TerraformPlan
    \/ TerraformShow
    \/ Loads
    \/ Finally
    \/ SavePlanResult
    \/ MainRaises
    \/ MainAfterPlan
    \/ AnalyzeChanges
    \/ ParseArgs
    \/ ParseArgsRaises
    \/ ParseAfterPlan

SpecPlan == InitPlan /\ [][NextPlan]_vars

-----------------------------------------------------------------------------
(* The calls *)

Init ==
    /\ pc = "call"
    /\ \/ /\ op = "extract_changes"
          /\ IsChange(resource_change, Sides)
          /\ json_plan = EmptyDict
       \/ /\ op = "create_resource_changes_dict"
          /\ json_plan \in Plans
          /\ resource_change = EmptyDict
    /\ delta = PyNone
    /\ outcome = Returned(EmptyDict)
    /\ PlanIdle

ExtractChanges ==
    /\ pc = "call"
    /\ op = "extract_changes"
    /\ delta' = extract_changes(resource_change)
    /\ pc' = "returned"
    /\ UNCHANGED <<op, resource_change, json_plan, outcome>>
    /\ UNCHANGED <<plan_vars, main_vars>>

CreateResourceChangesDict ==
    /\ pc = "call"
    /\ op = "create_resource_changes_dict"
    /\ outcome' = create_resource_changes_dict(json_plan)
    /\ pc' = "returned"
    /\ UNCHANGED <<op, resource_change, json_plan, delta>>
    /\ UNCHANGED <<plan_vars, main_vars>>

Next ==
    \/ ExtractChanges
    \/ CreateResourceChangesDict

Spec == Init /\ [][Next]_vars

-----------------------------------------------------------------------------
(* The vocabulary of the properties *)

ExtractReturned == pc = "returned" /\ op = "extract_changes"
CreateReturned == pc = "returned" /\ op = "create_resource_changes_dict"

\* the entries of the document under call, and their number
Entries == IF "resource_changes" \in DOMAIN json_plan
           THEN json_plan["resource_changes"] ELSE <<>>
EntryIds == DOMAIN Entries
ChangeOf(resource) == IF "change" \in DOMAIN resource THEN resource["change"] ELSE <<>>

\* the action list of the change names no-op
DeclaredNoOp(change) ==
    "actions" \in DOMAIN change /\ \E i \in DOMAIN change["actions"] : change["actions"][i] = "no-op"

\* a side of the change is a mapping, and not missing or null
IsMapping(change, side) == side \in DOMAIN change /\ ~change[side].none

\* the attribute record of a side, a missing or null side being empty
Attrs(change, side) == IF IsMapping(change, side) THEN change[side].dict ELSE <<>>

\* the value of attribute k in attribute record d, null if d lacks k
ValueAt(d, k) == IF k \in DOMAIN d THEN d[k] ELSE Null

\* the attributes whose values differ between the two sides
Differing(change) ==
    {k \in DOMAIN Attrs(change, "before") \cup DOMAIN Attrs(change, "after") :
        ValueAt(Attrs(change, "before"), k) # ValueAt(Attrs(change, "after"), k)}

\* the delta returned, None being no delta
DeltaOf(d) == IF d.none THEN <<>> ELSE d.dict

\* entry i has an address, and every entry with that address satisfies P
HasAddress(i) == "address" \in DOMAIN Entries[i]
SameAddress(i, j) == HasAddress(i) /\ HasAddress(j) /\ Entries[i]["address"] = Entries[j]["address"]
AllAt(i, P(_)) == HasAddress(i) /\ \A j \in EntryIds : SameAddress(i, j) => P(ChangeOf(Entries[j]))

\* the ChangeSet returned has no record for the address of entry i
Omitted(i) == Entries[i]["address"] \notin DOMAIN outcome.value

-----------------------------------------------------------------------------
(* C1 *)

\* C1: a change whose action list contains "no-op" gets no delta from
\* extract_changes, whatever before and after are, and an address all of
\* whose entries declare no-op is not a key of the ChangeSet.
C1_NoOpOmitted ==
    /\ ExtractReturned /\ DeclaredNoOp(resource_change) => delta = PyNone
    /\ CreateReturned /\ outcome.raised = "" =>
          \A i \in EntryIds : AllAt(i, DeclaredNoOp) => Omitted(i)

\* a document whose one entry declares no-op with differing before and
\* after, and for which an empty ChangeSet was returned
C1_Witness ==
    /\ CreateReturned
    /\ Len(Entries) = 1
    /\ HasAddress(1)
    /\ DeclaredNoOp(ChangeOf(Entries[1]))
    /\ IsMapping(ChangeOf(Entries[1]), "before")
    /\ IsMapping(ChangeOf(Entries[1]), "after")
    /\ Differing(ChangeOf(Entries[1])) # {}
    /\ outcome = Returned(<<>>)

-----------------------------------------------------------------------------
(* C2 *)

AddressesUnique ==
    /\ \A i \in EntryIds : HasAddress(i)
    /\ \A i, j \in EntryIds : SameAddress(i, j) => i = j

\* C2: for a document with unique addresses, the keys of the ChangeSet are
\* exactly the addresses of the entries whose computed delta is non-empty,
\* and no record has an empty changes mapping.
C2_Omission ==
    CreateReturned /\ AddressesUnique =>
        /\ outcome.raised = ""
        /\ DOMAIN outcome.value =
              {Entries[i]["address"] :
                  i \in {j \in EntryIds : Truthy(extract_changes(ChangeOf(Entries[j])))}}
        /\ \A a \in DOMAIN outcome.value : DOMAIN outcome.value[a]["changes"] # {}

\* two entries with different addresses, one with a delta and one without
C2_Witness ==
    /\ CreateReturned
    /\ AddressesUnique
    /\ Len(Entries) = 2
    /\ Truthy(extract_changes(ChangeOf(Entries[1])))
    /\ ~Truthy(extract_changes(ChangeOf(Entries[2])))
    /\ DOMAIN outcome.value = {Entries[1]["address"]}

-----------------------------------------------------------------------------
(* C3 *)

\* before and after are equal, a missing or null side being an empty mapping
SidesEqual(change) == Attrs(change, "before") = Attrs(change, "after")
Unchanged(change) == SidesEqual(change) /\ ~DeclaredNoOp(change)

\* C3: every key of the delta is a key of before or of after and has
\* different values on the two sides (null on a side that lacks it); when
\* before equals after and no no-op is declared, there is no delta and the
\* resource is omitted.
C3_KeyUnion ==
    /\ ExtractReturned =>
          /\ \A k \in DOMAIN DeltaOf(delta) :
                /\ k \in DOMAIN Attrs(resource_change, "before")
                         \cup DOMAIN Attrs(resource_change, "after")
                /\ ValueAt(Attrs(resource_change, "before"), k)
                      # ValueAt(Attrs(resource_change, "after"), k)
          /\ Unchanged(resource_change) => delta = PyNone
    /\ CreateReturned /\ outcome.raised = "" =>
          \A i \in EntryIds : AllAt(i, Unchanged) => Omitted(i)

\* a delta was returned for a change of which one attribute differs and
\* another, present on both sides, does not
C3_Witness ==
    /\ ExtractReturned
    /\ IsMapping(resource_change, "before")
    /\ IsMapping(resource_change, "after")
    /\ DOMAIN resource_change["before"].dict = AttrKeys
    /\ DOMAIN resource_change["after"].dict = AttrKeys
    /\ DOMAIN DeltaOf(delta) = {"source_ranges"}

-----------------------------------------------------------------------------
(* C4 *)

\* C4: when before and after are both mappings and no no-op is declared,
\* the delta has exactly the keys of the union whose values differ, each
\* with the two input values (null for a side that lacks the key).
C4_DeltaOfMappings ==
    ExtractReturned
    /\ IsMapping(resource_change, "before") /\ IsMapping(resource_change, "after")
    /\ ~DeclaredNoOp(resource_change) =>
        /\ DOMAIN DeltaOf(delta) = Differing(resource_change)
        /\ \A k \in DOMAIN DeltaOf(delta) :
              /\ DOMAIN DeltaOf(delta)[k] = {"before", "after"}
              /\ DeltaOf(delta)[k]["before"] = ValueAt(resource_change["before"].dict, k)
              /\ DeltaOf(delta)[k]["after"] = ValueAt(resource_change["after"].dict, k)

\* an update that changes source_ranges only, and adds no key
C4_Witness ==
    /\ ExtractReturned
    /\ resource_change =
          [before |-> Dict([name |-> Str("a"),
                            source_ranges |-> List(<<"10.0.0.0/8", "0.0.0.0/0">>)]),
           after |-> Dict([name |-> Str("a"),
                           source_ranges |-> List(<<"0.0.0.0/0", "10.0.0.0/8">>)]),
           actions |-> <<"update">>]
    /\ delta = Dict([source_ranges |->
                        [before |-> List(<<"10.0.0.0/8", "0.0.0.0/0">>),
                         after |-> List(<<"0.0.0.0/0", "10.0.0.0/8">>)]])

-----------------------------------------------------------------------------
(* C5 *)

\* a side of the change is missing or null
IsAbsent(change, side) == ~IsMapping(change, side)

\* the delta of a creation or destruction: every attribute of the present
\* side whose value is not null, paired with null on the absent side
OneSidedDelta(change) ==
    [k \in {x \in DOMAIN Attrs(change, "before") \cup DOMAIN Attrs(change, "after") :
               ValueAt(Attrs(change, "before"), x) # Null
               \/ ValueAt(Attrs(change, "after"), x) # Null} |->
        [before |-> ValueAt(Attrs(change, "before"), k),
         after |-> ValueAt(Attrs(change, "after"), k)]]

OneSided(change) ==
    /\ IsAbsent(change, "before") # IsAbsent(change, "after")
    /\ ~DeclaredNoOp(change)

\* C5: when exactly one of before and after is missing or null and no no-op
\* is declared, the absent side counts as an empty mapping: the delta pairs
\* every non-null attribute of the present side with null, and the resource
\* is in the ChangeSet.
C5_AbsentSideIsEmpty ==
    /\ ExtractReturned /\ OneSided(resource_change) =>
          DeltaOf(delta) = OneSidedDelta(resource_change)
    /\ CreateReturned /\ outcome.raised = "" =>
          \A i \in EntryIds :
              /\ HasAddress(i)
              /\ OneSided(ChangeOf(Entries[i]))
              /\ DOMAIN OneSidedDelta(ChangeOf(Entries[i])) # {}
              => ~Omitted(i)

-----------------------------------------------------------------------------
(* C6 *)

\* C6: create_resource_changes_dict never raises, whichever of address,
\* type, name, change, before, after and actions an entry lacks.
C6_NeverRaises == CreateReturned => outcome.raised = ""

-----------------------------------------------------------------------------
(* C7 *)

\* C7: a document without resource_changes, with an empty one, or of which
\* no entry has a delta, gets an empty ChangeSet, and the call does not
\* raise.
C7_EmptyChangeSet ==
    CreateReturned
    /\ \/ "resource_changes" \notin DOMAIN json_plan
       \/ Entries = <<>>
       \/ \A i \in EntryIds : ~Truthy(extract_changes(ChangeOf(Entries[i])))
    => outcome = Returned(<<>>)

\* a document without resource_changes, for which an empty ChangeSet was
\* returned
C7_Witness ==
    /\ CreateReturned
    /\ "resource_changes" \notin DOMAIN json_plan
    /\ outcome = Returned(<<>>)

-----------------------------------------------------------------------------
(* C8 *)

\* the entries with address a that are not omitted
Kept(a) ==
    {i \in EntryIds :
        /\ HasAddress(i)
        /\ Entries[i]["address"] = a
        /\ Truthy(extract_changes(ChangeOf(Entries[i])))}

Last(ids) == CHOOSE i \in ids : \A j \in ids : j <= i

\* C8: when entries share an address, the ChangeSet has one record for it,
\* built from the last of them that is not omitted, and none when all of
\* them are omitted.
C8_LastWriteWins ==
    CreateReturned /\ outcome.raised = "" =>
        \A a \in {Entries[i]["address"] : i \in {j \in EntryIds : HasAddress(j)}} :
            IF Kept(a) = {}
            THEN a \notin DOMAIN outcome.value
            ELSE /\ a \in DOMAIN outcome.value
                 /\ outcome.value[a] =
                       normalized(Entries[Last(Kept(a))],
                                  extract_changes(ChangeOf(Entries[Last(Kept(a))])))

\* two entries with the same address and different deltas, the record
\* returned being the one of the second
C8_Witness ==
    /\ CreateReturned
    /\ Len(Entries) = 2
    /\ HasAddress(1)
    /\ Kept(Entries[1]["address"]) = {1, 2}
    /\ extract_changes(ChangeOf(Entries[1])) # extract_changes(ChangeOf(Entries[2]))
    /\ outcome.value[Entries[2]["address"]]["changes"]
          = extract_changes(ChangeOf(Entries[2])).dict

-----------------------------------------------------------------------------
(* C10 *)

\* the value of field k of dict d, or the default
FieldOr(d, k, default) == IF k \in DOMAIN d THEN d[k] ELSE default

\* C10: every record of the ChangeSet has the type and the name of an entry
\* with its address (the empty string for a missing one), that entry's
\* change.actions in the same order (the empty sequence if missing), and
\* the delta extract_changes computes for that entry.
C10_RecordFields ==
    CreateReturned /\ outcome.raised = "" =>
        \A a \in DOMAIN outcome.value :
            \E i \in EntryIds :
                /\ HasAddress(i)
                /\ Entries[i]["address"] = a
                /\ DOMAIN outcome.value[a] = {"type", "name", "action", "changes"}
                /\ outcome.value[a]["type"] = FieldOr(Entries[i], "type", "")
                /\ outcome.value[a]["name"] = FieldOr(Entries[i], "name", "")
                /\ outcome.value[a]["action"] = FieldOr(ChangeOf(Entries[i]), "actions", <<>>)
                /\ outcome.value[a]["changes"] = DeltaOf(extract_changes(ChangeOf(Entries[i])))

\* a record for an entry with no type and with two actions
C10_Witness ==
    /\ CreateReturned
    /\ Len(Entries) = 1
    /\ DOMAIN Entries[1] = {"address", "name", "change"}
    /\ outcome.value =
          [x \in {Entries[1]["address"]} |->
              [type |-> "",
               name |-> "allow-http-https",
               action |-> <<"delete", "create">>,
               changes |-> [name |-> [before |-> Str("a"), after |-> Str("b")]]]]

-----------------------------------------------------------------------------
(* C11 *)

\* w is the list v with its elements in another order
Reordered(v, w) ==
    /\ v.kind = "list" /\ w.kind = "list"
    /\ Len(v.seq) = Len(w.seq)
    /\ {v.seq[i] : i \in DOMAIN v.seq} = {w.seq[i] : i \in DOMAIN w.seq}
    /\ v.seq # w.seq

\* w is the nested mapping v with keys added
NestedKeyAdded(v, w) ==
    /\ v.kind = "map" /\ w.kind = "map"
    /\ DOMAIN v.map \subseteq DOMAIN w.map
    /\ DOMAIN v.map # DOMAIN w.map
    /\ \A x \in DOMAIN v.map : v.map[x] = w.map[x]

\* the keys of the nested mappings of an attribute record
NestedKeys(d) == UNION {DOMAIN d[k].map : k \in DOMAIN d}

\* C11: values are compared whole, deeply and in order: an attribute whose
\* list is reordered or whose nested mapping gains a key gets one delta,
\* under the attribute's name, with the complete before and after values,
\* and no key of the delta is the name of a nested field.
C11_WholeValues ==
    ExtractReturned
    /\ IsMapping(resource_change, "before") /\ IsMapping(resource_change, "after")
    /\ ~DeclaredNoOp(resource_change) =>
        LET b == resource_change["before"].dict
            a == resource_change["after"].dict
        IN /\ \A k \in DOMAIN b \cap DOMAIN a :
                  Reordered(b[k], a[k]) \/ NestedKeyAdded(b[k], a[k]) =>
                      /\ k \in DOMAIN DeltaOf(delta)
                      /\ DeltaOf(delta)[k] = [before |-> b[k], after |-> a[k]]
           /\ DOMAIN DeltaOf(delta) \subseteq DOMAIN b \cup DOMAIN a
           /\ DOMAIN DeltaOf(delta) \cap (NestedKeys(b) \cup NestedKeys(a)) = {}

\* a nested mapping gains a key and a list is reordered: two deltas, under
\* the two attribute names, each with the whole values
C11_Witness ==
    /\ ExtractReturned
    /\ resource_change =
          [before |-> Dict([name |-> Map([env |-> "prod"]),
                            source_ranges |-> List(<<"10.0.0.0/8", "0.0.0.0/0">>)]),
           after |-> Dict([name |-> Map([env |-> "prod", team |-> "net"]),
                           source_ranges |-> List(<<"0.0.0.0/0", "10.0.0.0/8">>)]),
           actions |-> <<"update">>]
    /\ delta = Dict([name |-> [before |-> Map([env |-> "prod"]),
                               after |-> Map([env |-> "prod", team |-> "net"])],
                     source_ranges |->
                         [before |-> List(<<"10.0.0.0/8", "0.0.0.0/0">>),
                          after |-> List(<<"0.0.0.0/0", "10.0.0.0/8">>)]])

-----------------------------------------------------------------------------
(* The vocabulary of the properties of run_terraform_plan and main *)

\* run_terraform_plan has returned or raised
Finished == rpc \in {"returned", "raised"}

\* command has exited, with a code of codes
Exited(command, codes) == command \in DOMAIN returncode /\ returncode[command] \in codes

\* the result has an error
HasError == Len(result.error) > 0

\* terraform init, plan or show failed, or show printed no JSON
AcquisitionFailed ==
    \/ Exited("init", {1})
    \/ Exited("plan", {1})
    \/ Exited("show", {1})
    \/ Exited("show", {0}) /\ ~show_stdout.valid

-----------------------------------------------------------------------------
(* C12 *)

\* C12: whichever way run_terraform_plan ends, the copy of the state file
\* is gone from the directory, and so is every temporary file the call
\* made there (the plan file tfplan of line 141).
C12_NoArtifactRemains ==
    Finished => directory.tfstate \notin {"copy", "partial"} /\ directory.tfplan # "written"

\* the part of C12 about the copy of the state file: the finally block
\* removes it on every path, unless the removal itself raises
CopiedStateRemoved ==
    Finished /\ directory.tfstate \in {"copy", "partial"} => result.raised = "OSError"

-----------------------------------------------------------------------------
(* C13 *)

\* C13: every failure of the acquisition gives a result with an error, and
\* makes main return a code other than 0.
C13_FailureSurfaced ==
    /\ rpc = "returned" /\ AcquisitionFailed => HasError
    /\ op = "main" /\ main_pc = "exited" /\ AcquisitionFailed => exit_code # 0

-----------------------------------------------------------------------------
(* C14 *)

\* C14: the commands are started in the order init, plan, show; after a
\* failed init no other command is started and the result returned has no
\* plan, an error and init's exit code; after a successful init plan is
\* started, and once plan has exited show is started, whatever the exit
\* code of plan.
C14_StepOrder ==
    /\ \E n \in 0..3 : invoked = SubSeq(<<"init", "plan", "show">>, 1, n)
    /\ Exited("init", {1}) =>
          /\ invoked = <<"init">>
          /\ rpc \in {"save", "returned"} =>
                /\ result.json_plan = PyNone
                /\ HasError
                /\ result.return_code = returncode["init"]
    /\ Exited("init", {0}) /\ rpc # "plan" => Len(invoked) >= 2
    /\ Exited("plan", PlanCodes) /\ rpc # "show" => invoked = <<"init", "plan", "show">>

\* terraform plan failed, and terraform show was run after it
C14_Witness ==
    /\ rpc = "returned"
    /\ Exited("init", {0})
    /\ Exited("plan", {1})
    /\ invoked = <<"init", "plan", "show">>

-----------------------------------------------------------------------------
(* C15 *)

\* C15: after a successful init and a show that exits 0, output that is not
\* JSON gives return_code 1, no plan and an error that starts with "Failed
\* to parse JSON", whatever plan's exit code; output that is JSON gives the
\* parsed document, no error and plan's exit code as return_code.
C15_ShowOutput ==
    rpc = "returned" /\ Exited("init", {0}) /\ Exited("show", {0}) =>
        IF show_stdout.valid
        THEN /\ result.json_plan = Dict(show_stdout.doc)
             /\ result.error = NoError
             /\ result.return_code = returncode["plan"]
        ELSE /\ result.return_code = 1
             /\ result.json_plan = PyNone
             /\ HasError
             /\ result.error[1] = "Failed to parse JSON: "

\* terraform plan exited 2 and show printed a document with an entry
C15_Witness ==
    /\ rpc = "returned"
    /\ Exited("plan", {2})
    /\ Exited("show", {0})
    /\ show_stdout.valid
    /\ "resource_changes" \in DOMAIN show_stdout.doc
    /\ Len(show_stdout.doc["resource_changes"]) = 1
    /\ result.return_code = 2
    /\ result.json_plan = Dict(show_stdout.doc)

-----------------------------------------------------------------------------
(* C16 *)

\* the ChangeSet of the plan of the result
ChangeSetOfResult == create_resource_changes_dict(result.json_plan.dict)

\* C16: analyze_changes is called only after run_terraform_plan returned
\* without error a plan whose ChangeSet is not empty; with an error main
\* returns 1, with an empty ChangeSet it returns 0, and in both cases
\* analyze_changes is not called.
C16_AnalysisOnlyOfChanges ==
    /\ llm_calls # <<>> =>
          /\ rpc = "returned"
          /\ ~HasError
          /\ Truthy(result.json_plan)
          /\ ChangeSetOfResult.raised = ""
          /\ DOMAIN ChangeSetOfResult.value # {}
          /\ llm_calls = <<[changes |-> ChangeSetOfResult.value]>>
    /\ op = "main" /\ main_pc = "exited" /\ HasError => exit_code = 1 /\ llm_calls = <<>>
    /\ op = "main" /\ main_pc = "exited" /\ ~HasError /\ Truthy(result.json_plan)
       /\ ChangeSetOfResult = Returned(<<>>)
       => exit_code = 0 /\ llm_calls = <<>>

\* main has returned after one call of analyze_changes
C16_Witness ==
    /\ main_pc = "exited"
    /\ Len(llm_calls) = 1
    /\ DOMAIN llm_calls[1]["changes"] # {}
    /\ exit_code = 0

-----------------------------------------------------------------------------
(* C17 *)

\* C17: a terraform.tfstate that was in the directory before the call is
\* there with its content after it, the case of state_file being that file
\* included (output_file, which the call is to write, being another file).
C17_OwnStateFileOnly ==
    Finished /\ before_call.tfstate = "original" /\ output_file # "tfstate"
    => directory.tfstate = "original"

====
